---- MODULE Spec2Model ----
(***************************************************************************)
(* 2GIS Search MCP server: the geocoder parameter model (src/models.py),   *)
(* the upstream client DGisSearchAPI and the six tool functions            *)
(* (src/dgis_search_mcp.py).                                               *)
(*                                                                         *)
(* Python values are tagged tuples, so that None, strings, integers and    *)
(* floats can sit in one dict: None is <<"None">>, "cafe" is               *)
(* <<"str", "cafe">>, 1000 is <<"int", 1000>>, and the float 55.7 is       *)
(* <<"float", 557>> (floats are kept in tenths).                           *)
(***************************************************************************)
EXTENDS Integers, Sequences, FiniteSets, TLC

VARIABLES
    settings,     \* dgis_api_settings, read once from the environment
    seen,         \* one earlier invocation and the request it issued
    api_key,      \* DGisSearchAPI.api_key of the module-level client
    url,          \* DGisSearchAPI.url of the module-level client
    pc,           \* "idle", or "in_get" while a tool call is blocked in httpx.get
    call,         \* the tool invocation in progress or last finished
    requests,     \* the HTTP requests issued by that invocation, in order
    upstream,     \* what httpx.get did for it: a response, or an error raised
    json_calls,   \* how many times response.json() ran in that invocation
    api_result,   \* outcome of the client operation (return / raise)
    result,       \* outcome of the tool function (return / raise)
    log,          \* the log records written by that invocation, in order
    gp_in,        \* keyword arguments of the last GeocoderParams(...) call
    gp            \* outcome of the last GeocoderParams(...) call

vars == <<settings, seen, api_key, url, pc, call, requests, upstream, json_calls, api_result,
          result, log, gp_in, gp>>

----------------------------------------------------------------------------
(* Python values *)

None == <<"None">>
Str(s) == <<"str", s>>
IntV(n) == <<"int", n>>
Float(t) == <<"float", t>>

\* variant: a test against None in place of truthiness
Truthy_NotNone(v) == v # None

\* bool(s) of a str: the empty string is falsy
Truthy(v) == v # Str("")

\* largest magnitude, in tenths, of the coordinates tried
MaxTenths == 1

\* str(float) for a float held in tenths: 55.7 -> "55.7", 55.0 -> "55.0"
FloatRepr(t) ==
    LET a == IF t < 0 THEN -t ELSE t
    IN  (IF t < 0 THEN "-" ELSE "") \o ToString(a \div 10) \o "."
            \o ToString(a % 10)

----------------------------------------------------------------------------
(* src/models.py: GeocoderParams *)

GeocoderFields == {"query", "lat", "lon", "fields"}

\* variant: the fields default left empty
GeocoderDefaults_NoFields ==
    [query |-> Str(""), lat |-> None, lon |-> None, fields |-> Str("")]

\* the declared defaults of the four fields
GeocoderDefaults ==
    [query |-> Str(""), lat |-> None, lon |-> None,
     fields |-> Str("items.point")]

\* the field values after pydantic has applied the defaults
WithDefaults(kwargs) ==
    [f \in GeocoderFields |->
        IF f \in DOMAIN kwargs THEN kwargs[f] ELSE GeocoderDefaults[f]]

MsgTogether == "Both 'lat' and 'lon' must be provided together"
MsgAtLeastOne ==
    "At least one of 'query' or both 'lat' and 'lon' must be provided"
MsgExtra == "Extra inputs are not permitted"

\* variant: longitude first
GeocoderParams_location_Swapped(self) ==
    IF self.lat # None /\ self.lon # None
    THEN Str(FloatRepr(self.lon[2]) \o "," \o FloatRepr(self.lat[2]))
    ELSE None

\* the computed field GeocoderParams.location
GeocoderParams_location(self) ==
    IF self.lat # None /\ self.lon # None
    THEN Str(FloatRepr(self.lat[2]) \o "," \o FloatRepr(self.lon[2]))
    ELSE None

\* variant: the at-least-one check made before the partial-pair check
validate_at_least_one_param_NoOrder(self) ==
    LET has_query == Truthy(self.query)
        has_location == self.lat # None /\ self.lon # None
    IN  IF ~has_query /\ ~has_location
        THEN [status |-> "ValidationError", msg |-> MsgAtLeastOne]
        ELSE IF (self.lat = None) # (self.lon = None)
        THEN [status |-> "ValidationError", msg |-> MsgTogether]
        ELSE [status |-> "ok"]

\* the mode='after' model validator
validate_at_least_one_param(self) ==
    IF (self.lat = None) # (self.lon = None)
    THEN [status |-> "ValidationError", msg |-> MsgTogether]
    ELSE LET has_query == Truthy(self.query)
             has_location == self.lat # None /\ self.lon # None
         IN  IF ~has_query /\ ~has_location
             THEN [status |-> "ValidationError", msg |-> MsgAtLeastOne]
             ELSE [status |-> "ok"]

\* GeocoderParams(**kwargs): extra = "forbid", then the defaults, then the
\* after-validator; a valid instance carries its fields and its location
GeocoderParams(kwargs) ==
    IF ~(DOMAIN kwargs \subseteq GeocoderFields)
    THEN [status |-> "ValidationError", msg |-> MsgExtra]
    ELSE LET self == WithDefaults(kwargs)
             v == validate_at_least_one_param(self)
         IN  IF v.status = "ok"
             THEN [status |-> "ok", self |-> self,
                   location |-> GeocoderParams_location(self)]
             ELSE v

----------------------------------------------------------------------------
(* src/dgis_search_mcp.py: DGisSearchAPI *)

\* the module-level client dgis_search_api
dgis_search_api == [api_key |-> api_key, url |-> url]

\* _build_params: the keyword arguments whose value is not None
build_params(kwargs) ==
    [k \in {n \in DOMAIN kwargs : kwargs[n] # None} |-> kwargs[k]]

Get(u, params) == [method |-> "GET", url |-> u, params |-> params]

\* each <name>_api below is the request the operation hands to httpx.get

place_api(self, query, point, location, radius) ==
    Get(self.url \o "/3.0/items",
        build_params([q |-> query, location |-> location, point |-> point,
                      radius |-> radius, sort |-> Str("distance"),
                      key |-> self.api_key]))

geocoder_api(self, query, location) ==
    Get(self.url \o "/3.0/items/geocode",
        build_params([q |-> query, location |-> location,
                      key |-> self.api_key]))

\* variant: the suggest path under /3.0/items
suggest_api_ItemsPath(self, query, location) ==
    Get(self.url \o "/3.0/items/suggests",
        build_params([q |-> query, location |-> location,
                      key |-> self.api_key]))

suggest_api(self, query, location) ==
    Get(self.url \o "/3.0/suggests",
        build_params([q |-> query, location |-> location,
                      key |-> self.api_key]))

categories_api(self, query, region_id) ==
    Get(self.url \o "/2.0/catalog/rubric/search",
        build_params([q |-> query, region_id |-> region_id,
                      key |-> self.api_key]))

\* variant: the key left out of one operation's parameters
regions_api_NoKey(self, query) ==
    Get(self.url \o "/2.0/region/search", build_params([q |-> query]))

regions_api(self, query) ==
    Get(self.url \o "/2.0/region/search",
        build_params([q |-> query, key |-> self.api_key]))

markers_api(self, query, location) ==
    Get(self.url \o "/3.0/markers",
        build_params([q |-> query, location |-> location,
                      key |-> self.api_key]))

----------------------------------------------------------------------------
(* outcomes, exceptions and log records *)

NoOutcome == [kind |-> "none"]
Return(v) == [kind |-> "return", value |-> v]
Raise(e) == [kind |-> "raise", exc |-> e]

\* httpx.HTTPStatusError for a response with this status
HTTPStatusError(status) ==
    [type |-> "HTTPStatusError", http_error |-> TRUE, detail |-> status]
\* httpx.ConnectError, httpx.ReadTimeout, ...: raised by httpx.get itself
TransportError(name) ==
    [type |-> name, http_error |-> TRUE, detail |-> 0]
\* json.JSONDecodeError, a ValueError: not an httpx.HTTPError
JSONDecodeError ==
    [type |-> "JSONDecodeError", http_error |-> FALSE, detail |-> 0]

Record(level, msg) == [level |-> level, msg |-> msg]

\* Response.is_success
IsSuccess(status) == status >= 200 /\ status <= 299

\* Response.json(): the bodies that are JSON documents, and their values
JsonBodies == {"{}", "{\"total\": 1}"}
JsonValue(body) ==
    IF body = "{}" THEN <<"dict", {}>>
    ELSE <<"dict", {<<"total", 1>>}>>

\* variant: the body parsed before the status is looked at, and an error
\* status answered with the parsed body
ApiAfterResponse_ParseFirst(cap, status, body) ==
    IF body \in JsonBodies
    THEN [outcome |-> Return(JsonValue(body)), json_calls |-> 1,
          log |-> <<Record("DEBUG", cap \o " API response status")>>]
    ELSE IF ~IsSuccess(status)
    THEN [outcome |-> Raise(HTTPStatusError(status)), json_calls |-> 1,
          log |-> <<Record("ERROR", cap \o " API error")>>]
    ELSE [outcome |-> Raise(JSONDecodeError), json_calls |-> 1,
          log |-> <<Record("DEBUG", cap \o " API response status")>>]

\* the rest of a client operation once httpx.get has returned a response:
\* raise_for_status, the debug record, response.json(), and the except clause
\* that logs and re-raises an httpx.HTTPError
ApiAfterResponse(cap, status, body) ==
    IF ~IsSuccess(status)
    THEN [outcome |-> Raise(HTTPStatusError(status)), json_calls |-> 0,
          log |-> <<Record("ERROR", cap \o " API error")>>]
    ELSE IF body \in JsonBodies
    THEN [outcome |-> Return(JsonValue(body)), json_calls |-> 1,
          log |-> <<Record("DEBUG", cap \o " API response status")>>]
    ELSE [outcome |-> Raise(JSONDecodeError), json_calls |-> 1,
          log |-> <<Record("DEBUG", cap \o " API response status")>>]

\* the rest of a client operation when httpx.get raises
ApiAfterError(cap, exc) ==
    [outcome |-> Raise(exc), json_calls |-> 0,
     log |-> IF exc.http_error
             THEN <<Record("ERROR", cap \o " API error")>>
             ELSE <<>>]

\* variant: a failure logged and answered with an empty result
ToolAfterApi_Swallow(cap, api) ==
    IF api.kind = "return"
    THEN [outcome |-> Return(api.value),
          log |-> <<Record("DEBUG", "MCP " \o cap
                                       \o " API response received successfully")>>]
    ELSE [outcome |-> Return(<<"dict", {}>>),
          log |-> <<Record("ERROR", "MCP " \o cap \o " API error")>>]

\* variant: the key dropped from the client after a failed request
ClientAfterCall_ClearKey(self, api) ==
    IF api.kind = "raise" THEN [self EXCEPT !.api_key = Str("")] ELSE self

\* the client object once an operation has ended: no operation assigns to
\* self.api_key or self.url
ClientAfterCall(self, api) == self

\* the rest of a tool function once its client operation has ended:
\* return the result, or log and re-raise
ToolAfterApi(cap, api) ==
    IF api.kind = "return"
    THEN [outcome |-> Return(api.value),
          log |-> <<Record("DEBUG", "MCP " \o cap
                                       \o " API response received successfully")>>]
    ELSE [outcome |-> Raise(api.exc),
          log |-> <<Record("ERROR", "MCP " \o cap \o " API error")>>]

----------------------------------------------------------------------------
(* inputs tried *)

Floats == {Float(t) : t \in -MaxTenths .. MaxTenths} \cup {Float(557)}

Omitted == <<"omitted">>

\* the keyword arguments a caller actually passes
Supplied(r) == [k \in {n \in DOMAIN r : r[n] # Omitted} |-> r[k]]

\* Python's binding of an argument that has a default
Arg(args, name, default) ==
    IF name \in DOMAIN args THEN args[name] ELSE default

\* every dict over a subset of the four fields and one unknown keyword
GeocoderInputs ==
    {Supplied([query |-> q, lat |-> la, lon |-> lo, fields |-> fi,
               extra |-> ex]) :
        q \in {Omitted, Str(""), Str("Moscow")},
        la \in {Omitted, None} \cup Floats,
        lo \in {Omitted, None} \cup Floats,
        fi \in {Omitted, Str("items.point,items.address")},
        ex \in {Omitted, Str("x")}}

Queries == {Str(""), Str("cafe")}
Locations == {Str("55.0,37.0"), Str("56.5,38.0")}
Statuses == {200, 204, 302, 404, 500}
Bodies == JsonBodies \cup {"<html>"}
TransportErrors == {"ConnectError", "ReadTimeout"}

----------------------------------------------------------------------------
(* the tool functions; each action runs a tool up to its httpx.get *)

NoCall == [tool |-> "none", cap |-> "none", args |-> <<>>]
NoUpstream == [kind |-> "none"]
Response(status, body) ==
    [kind |-> "response", status |-> status, body |-> body]
Failure(name) == [kind |-> "error", name |-> name]

\* DGISAPISettings(): DGIS_API_KEY and DGIS_SEARCH_API_URL
Settings ==
    [api_key : {Str("key-A"), Str("key-B")},
     search_api_url : {"https://catalog.api.2gis.com"}]

NoSeen == [tool |-> "none", args |-> <<>>, request |-> <<>>]

\* the invocation c and the request it issued, kept for comparison
Seen(c, req) == [tool |-> c.tool, args |-> c.args, request |-> req]

InitClient ==
    /\ settings \in Settings
    /\ api_key = settings.api_key
    /\ url = settings.search_api_url
    /\ seen = NoSeen
    /\ pc = "idle"
    /\ call = NoCall
    /\ requests = <<>>
    /\ upstream = NoUpstream
    /\ json_calls = 0
    /\ api_result = NoOutcome
    /\ result = NoOutcome
    /\ log = <<>>
    /\ gp = [status |-> "none"]

Init ==
    /\ InitClient
    /\ gp_in = <<>>

\* a tool called with args logs, its client operation logs, builds the
\* parameters and enters httpx.get with the request req
Enter(tool, cap, args, req) ==
    /\ pc = "idle"
    /\ pc' = "in_get"
    /\ call' = [tool |-> tool, cap |-> cap, args |-> args]
    /\ requests' = <<req>>
    /\ upstream' = NoUpstream
    /\ json_calls' = 0
    /\ api_result' = NoOutcome
    /\ result' = NoOutcome
    /\ log' = <<Record("INFO", "MCP " \o cap \o " API request"),
                Record("INFO", cap \o " API request")>>
    /\ seen' \in IF seen = NoSeen /\ call.tool # "none"
                 THEN {seen, Seen(call, requests[1])}
                 ELSE {seen}
    /\ UNCHANGED <<settings, api_key, url, gp_in, gp>>

categories_request(args) ==
    categories_api(dgis_search_api, args.query,
                   Arg(args, "region_id", IntV(1)))

categories_tool ==
    \E q \in Queries, r \in {Omitted, IntV(32)} :
        LET args == Supplied([query |-> q, region_id |-> r])
        IN  Enter("categories_tool", "Categories", args,
                  categories_request(args))

geocoder_request(args) ==
    geocoder_api(dgis_search_api, args.query,
                 Arg(args, "location", Str("")))

geocoder_tool ==
    \E q \in Queries, l \in {Omitted, Str("")} \cup Locations :
        LET args == Supplied([query |-> q, location |-> l])
        IN  Enter("geocoder_tool", "Geocoder", args, geocoder_request(args))

markers_request(args) ==
    markers_api(dgis_search_api, args.query,
                Arg(args, "location", Str("")))

markers_tool ==
    \E q \in Queries, l \in {Omitted, Str("")} \cup Locations :
        LET args == Supplied([query |-> q, location |-> l])
        IN  Enter("markers_tool", "Markers", args, markers_request(args))

\* place_tool passes (query, location, point, radius) positionally to
\* place_api(query, point, location, radius)
place_request(args) ==
    place_api(dgis_search_api, args.query, args.location, args.point,
              Arg(args, "radius", IntV(1000)))

place_tool ==
    \E q \in Queries, l \in Locations, p \in Locations,
       r \in {Omitted, IntV(500)} :
        LET args == Supplied([query |-> q, location |-> l, point |-> p,
                              radius |-> r])
        IN  Enter("place_tool", "Place", args, place_request(args))

regions_request(args) == regions_api(dgis_search_api, args.query)

regions_tool ==
    \E q \in Queries :
        LET args == Supplied([query |-> q])
        IN  Enter("regions_tool", "Regions", args, regions_request(args))

suggest_request(args) ==
    suggest_api(dgis_search_api, args.query,
                Arg(args, "location", Str("")))

suggest_tool ==
    \E q \in Queries, l \in {Omitted, Str("")} \cup Locations :
        LET args == Supplied([query |-> q, location |-> l])
        IN  Enter("suggest_tool", "Suggest", args, suggest_request(args))

\* the call in progress ends: the client operation ends with api, and the
\* tool function returns or re-raises
Finish(up, api) ==
    LET tool == ToolAfterApi(call.cap, api.outcome)
    IN  /\ pc' = "idle"
        /\ upstream' = up
        /\ api_result' = api.outcome
        /\ json_calls' = json_calls + api.json_calls
        /\ result' = tool.outcome
        /\ log' = log \o api.log \o tool.log
        /\ api_key' = ClientAfterCall(dgis_search_api, api.outcome).api_key
        /\ url' = ClientAfterCall(dgis_search_api, api.outcome).url
        /\ UNCHANGED <<settings, seen, call, requests, gp_in, gp>>

\* httpx.get returns a response
HttpResponse ==
    /\ pc = "in_get"
    /\ \E status \in Statuses, body \in Bodies :
          Finish(Response(status, body),
                 ApiAfterResponse(call.cap, status, body))

\* httpx.get raises a transport error
HttpError ==
    /\ pc = "in_get"
    /\ \E name \in TransportErrors :
          Finish(Failure(name),
                 ApiAfterError(call.cap, TransportError(name)))

Next ==
    \/ categories_tool
    \/ geocoder_tool
    \/ markers_tool
    \/ place_tool
    \/ regions_tool
    \/ suggest_tool
    \/ HttpResponse
    \/ HttpError

Spec == Init /\ [][Next]_vars

----------------------------------------------------------------------------
(* the parameter model on its own: every input, then its construction *)

InitParams ==
    /\ InitClient
    /\ gp_in \in GeocoderInputs

\* a caller constructs GeocoderParams from the keyword arguments gp_in
Construct ==
    /\ gp.status = "none"
    /\ gp' = GeocoderParams(gp_in)
    /\ UNCHANGED <<settings, seen, api_key, url, pc, call, requests, upstream, json_calls,
                   api_result, result, log, gp_in>>

SpecParams == InitParams /\ [][Construct]_vars

----------------------------------------------------------------------------
(* Properties of GeocoderParams, checked under SpecParams.  The inputs are *)
(* keyword arguments over the model's declared fields; a keyword that is   *)
(* no field is refused by extra = "forbid" before the validator runs.      *)

Constructed == gp.status # "none"
Recognised == DOMAIN gp_in \subseteq GeocoderFields
\* the caller supplied a value (not None) for field f
Given(f) == f \in DOMAIN gp_in /\ gp_in[f] # None
QueryNonEmpty == Given("query") /\ gp_in.query # Str("")
PartialPair == Given("lat") # Given("lon")
BothCoords == Given("lat") /\ Given("lon")
Failed(msg) == gp.status = "ValidationError" /\ gp.msg = msg

\* C1: whenever exactly one of lat and lon is supplied, construction fails
\* with the "must be provided together" error, whatever the query is; the
\* "at least one" error is never the one reported for a partial pair.
C1_PartialPairFailsTogether ==
    (Constructed /\ Recognised /\ PartialPair)
        => /\ Failed("Both 'lat' and 'lon' must be provided together")
           /\ ~Failed("At least one of 'query' or both 'lat' and 'lon' must be provided")

C1_Witness ==
    /\ Constructed /\ Recognised /\ PartialPair
    /\ QueryNonEmpty
    /\ Failed("Both 'lat' and 'lon' must be provided together")

\* C2: with an empty or omitted query and neither lat nor lon supplied,
\* construction fails with the "at least one" error.
C2_NothingSuppliedFailsAtLeastOne ==
    (Constructed /\ Recognised /\ ~QueryNonEmpty
        /\ ~Given("lat") /\ ~Given("lon"))
        => Failed("At least one of 'query' or both 'lat' and 'lon' must be provided")

C2_Witness ==
    /\ Constructed /\ Recognised
    /\ "query" \in DOMAIN gp_in /\ gp_in.query = Str("")
    /\ ~Given("lat") /\ ~Given("lon")
    /\ Failed("At least one of 'query' or both 'lat' and 'lon' must be provided")

\* C3: construction succeeds exactly when lat and lon are both present or
\* both absent and (the query is non-empty or both coordinates are present);
\* the instance then holds the supplied query, lat and lon, and fields is
\* the supplied value, or "items.point" when none was supplied.
C3_SucceedsIffRuleHolds ==
    (Constructed /\ Recognised)
        => /\ (gp.status = "ok")
                  <=> (~PartialPair /\ (QueryNonEmpty \/ BothCoords))
           /\ (gp.status = "ok")
                  => /\ gp.self.query
                           = (IF Given("query") THEN gp_in.query ELSE Str(""))
                     /\ gp.self.lat
                           = (IF Given("lat") THEN gp_in.lat ELSE None)
                     /\ gp.self.lon
                           = (IF Given("lon") THEN gp_in.lon ELSE None)
                     /\ gp.self.fields
                           = (IF Given("fields") THEN gp_in.fields
                              ELSE Str("items.point"))

C3_Witness ==
    /\ gp.status = "ok"
    /\ DOMAIN gp_in = {"lat", "lon"}
    /\ gp.self.query = Str("")
    /\ gp.self.lat = Float(557)
    /\ gp.self.fields = Str("items.point")

\* C4: on a constructed instance, location is present exactly when both lat
\* and lon are, and is then "{lat},{lon}", latitude first; with a query and
\* no coordinates it is absent.
C4_LocationIsLatCommaLon ==
    gp.status = "ok"
        => /\ (gp.location # None) <=> BothCoords
           /\ BothCoords
                  => gp.location = Str(FloatRepr(gp_in.lat[2]) \o ","
                                          \o FloatRepr(gp_in.lon[2]))
           /\ (BothCoords /\ gp_in.lat = Float(557) /\ gp_in.lon = Float(-1))
                  => gp.location = Str("55.7,-0.1")

C4_Witness ==
    /\ gp.status = "ok"
    /\ BothCoords
    /\ gp_in.lat = Float(557) /\ gp_in.lon = Float(-1)
    /\ gp.location = Str("55.7,-0.1")

----------------------------------------------------------------------------
(* Properties of the tool functions and the client, checked under Spec *)

Called == call.tool # "none"
Ended == Called /\ pc = "idle"
LocationTools == {"geocoder_tool", "suggest_tool", "markers_tool"}
\* the caller passed argument a
Passed(a) == a \in DOMAIN call.args
\* the outgoing parameter set of the invocation's i-th request
Params(i) == requests[i].params
\* the upstream answered with a non-2xx status, or the transport failed
UpstreamFailed ==
    \/ upstream.kind = "error"
    \/ upstream.kind = "response" /\ ~(upstream.status \in 200 .. 299)

\* C5: a geocoder_tool call whose arguments break the query-or-coordinates
\* rule (an empty query and no location) ends in a validation error and
\* issues no HTTP request.
C5_ValidationPreventsRequest ==
    (call.tool = "geocoder_tool" /\ call.args.query = Str("")
        /\ (Passed("location") => call.args.location = Str("")))
        => /\ requests = <<>>
           /\ Ended => /\ result.kind = "raise"
                       /\ result.exc.type = "ValidationError"

\* C6: through geocoder_tool, suggest_tool and markers_tool, a location the
\* caller leaves unset is no key of the outgoing parameters, and no
\* parameter is sent with a None or empty-string value for it.
C6_UnsetOptionalNotSent ==
    (call.tool \in LocationTools /\ ~Passed("location"))
        => \A i \in 1 .. Len(requests) :
              /\ "location" \notin DOMAIN Params(i)
              /\ \A k \in DOMAIN Params(i) \ {"q"} :
                    Params(i)[k] \notin {None, Str("")}

\* C7: place_tool(query=Q, point=P, location=L, radius=R) sends q=Q,
\* point=P, location=L, radius=R (1000 when R is not passed) and
\* sort=distance.
C7_PlaceParamsUnderOwnNames ==
    call.tool = "place_tool"
        => \A i \in 1 .. Len(requests) :
              /\ Params(i).q = call.args.query
              /\ Params(i).point = call.args.point
              /\ Params(i).location = call.args.location
              /\ Params(i).radius
                    = (IF Passed("radius") THEN call.args.radius
                       ELSE IntV(1000))
              /\ Params(i).sort = Str("distance")

UnderlyingError ==
    IF upstream.kind = "error" THEN TransportError(upstream.name)
    ELSE HTTPStatusError(upstream.status)

C9_ToolPropagatesUnchanged ==
    Ended => /\ api_result.kind \in {"return", "raise"}
             /\ result = api_result

C9_Witness ==
    /\ Ended /\ call.tool = "regions_tool"
    /\ api_result = Raise(JSONDecodeError)
    /\ result = Raise(JSONDecodeError)

\* the fixed path of each capability, as documented
DocumentedPath ==
    [place_tool      |-> "/3.0/items",
     geocoder_tool   |-> "/3.0/items/geocode",
     suggest_tool    |-> "/3.0/suggests",
     categories_tool |-> "/2.0/catalog/rubric/search",
     regions_tool    |-> "/2.0/region/search",
     markers_tool    |-> "/3.0/markers"]

\* C10: an invocation issues exactly one GET, to its capability's fixed
\* path under the base URL, and none after it has failed.
C10_ExactlyOneGet ==
    Called => /\ Len(requests) = 1
              /\ requests[1].method = "GET"
              /\ requests[1].url = url \o DocumentedPath[call.tool]

C10_Witness ==
    /\ Ended /\ call.tool = "suggest_tool"
    /\ upstream.kind = "error"
    /\ Len(requests) = 1
    /\ requests[1].url = "https://catalog.api.2gis.com/3.0/suggests"

\* C11: whatever the capability and its arguments, the outgoing parameters
\* hold key, and its value is the configured API key.
C11_KeyInEveryRequest ==
    Called => \A i \in 1 .. Len(requests) :
                 /\ "key" \in DOMAIN Params(i)
                 /\ Params(i).key = settings.api_key

C11_Witness ==
    /\ Called /\ call.tool = "regions_tool"
    /\ settings.api_key = Str("key-B")
    /\ Len(requests) = 1
    /\ Params(1) = [q |-> Str("cafe"), key |-> Str("key-B")]

\* the invocation in progress or last finished repeats the earlier one kept
\* in seen: same tool, same arguments
RepeatsSeen == Called /\ seen.tool = call.tool /\ seen.args = call.args

\* C12: no call changes the client's api_key or url, and after any earlier
\* calls, failed or not, a call with the same tool and arguments as an
\* earlier one issues its own request with the same path and parameters.
C12_CredentialsFixedRequestsRepeat ==
    /\ api_key = settings.api_key
    /\ url = settings.search_api_url
    /\ RepeatsSeen => /\ Len(requests) = 1
                      /\ requests[1].url = seen.request.url
                      /\ requests[1].params = seen.request.params

C12_Witness ==
    /\ RepeatsSeen /\ Ended
    /\ call.tool = "place_tool" /\ Passed("radius")
    /\ upstream.kind = "error"
    /\ requests[1] = seen.request
    /\ api_key = settings.api_key

====
